---------------------------- MODULE Spec2Model ----------------------------
(***************************************************************************)
(* A model of the OpenCitations MCP server (ahmeshaf/servers,              *)
(* src/opencitations): the API client of lib.ts (apiRequest and the six    *)
(* operations built on it), its identifier normalizers and text            *)
(* formatters, and the tool handlers and token resolution of index.ts.     *)
(*                                                                         *)
(* JavaScript strings that the code inspects character by character        *)
(* (identifiers, tokens, command-line arguments, count strings) are        *)
(* sequences of one-character strings.  An optional value (string |        *)
(* undefined) is a set with at most one element.                           *)
(***************************************************************************)
EXTENDS Integers, Sequences, FiniteSets, TLC

VARIABLES
    argv,          \* process.argv: a sequence of argument strings
    env,           \* process.env.OPENCITATIONS_ACCESS_TOKEN: optional string
    started,       \* whether the module body of index.ts has run
    ACCESS_TOKEN,  \* index.ts: const ACCESS_TOKEN (optional string)
    calls,         \* the tool invocations in flight or completed, by slot
    raw,           \* normalizer check: the raw identifier
    doiHist,       \* normalizer check: formatDoi applied 1, 2, ... times to raw
    issnHist,      \* normalizer check: formatIssn applied 1, 2, ... times to raw
    citations,     \* formatter check: the input list of Citation records
    text           \* formatter check: the output of formatCitationsAsText

vars == <<argv, env, started, ACCESS_TOKEN, calls, raw, doiHist, issnHist,
          citations, text>>

tokenVars == <<argv, env, started, ACCESS_TOKEN>>
normVars  == <<raw, doiHist, issnHist>>
fmtVars   == <<citations, text>>

-----------------------------------------------------------------------------
(* Bounds of the model. *)

\* Raw identifiers are concatenations of at most MaxChunks chunks.
MaxChunks == 2
\* Each normalizer is applied at most MaxApply times in a row.
MaxApply == 2

-----------------------------------------------------------------------------
(* String helpers (String.prototype.startsWith, slicing). *)

StartsWith(s, p) == Len(s) >= Len(p) /\ SubSeq(s, 1, Len(p)) = p

Drop(s, n) == SubSeq(s, n + 1, Len(s))

\* An optional value: Undefined, or Some(v).
Undefined == {}
Some(v) == {v}
TheValue(o) == CHOOSE v \in o : TRUE

-----------------------------------------------------------------------------
(* Identifier normalizers: lib.ts formatDoi, formatIssn. *)

DoiPrefix  == <<"d", "o", "i", ":">>
IssnPrefix == <<"i", "s", "s", "n", ":">>

Http       == <<"h", "t", "t", "p">>
HostPart   == <<":", "/", "/", "d", "o", "i", ".", "o", "r", "g", "/">>

\* ASCII lower-casing of the letters that occur in the model's strings.
LowerChar(c) ==
    CASE c = "H" -> "h" [] c = "T" -> "t" [] c = "P" -> "p" [] c = "S" -> "s"
      [] c = "D" -> "d" [] c = "O" -> "o" [] c = "I" -> "i" [] c = "R" -> "r"
      [] c = "G" -> "g" [] c = "N" -> "n"
      [] OTHER -> c

Lower(s) == [k \in 1..Len(s) |-> LowerChar(s[k])]

\* The regular expression with the i flag added: scheme and host in any case.
DoiUrlMatchIgnoreCase(s) ==
    IF StartsWith(Lower(s), Http \o <<"s">> \o HostPart) THEN Len(Http) + 1 + Len(HostPart)
    ELSE IF StartsWith(Lower(s), Http \o HostPart) THEN Len(Http) + Len(HostPart)
    ELSE 0

\* The length of the match of /^https?:\/\/doi\.org\// at the start of s,
\* 0 when the expression does not match (a match is never empty).
DoiUrlMatch(s) ==
    IF StartsWith(s, Http \o <<"s">> \o HostPart) THEN Len(Http) + 1 + Len(HostPart)
    ELSE IF StartsWith(s, Http \o HostPart) THEN Len(Http) + Len(HostPart)
    ELSE 0

\* formatDoi without the startsWith test: the prefix is always prepended.
formatDoiAlwaysPrefix(doi) ==
    DoiPrefix \o Drop(doi, DoiUrlMatch(doi))

formatDoi(doi) ==
    LET d == Drop(doi, DoiUrlMatch(doi))     \* doi.replace(/^https?:\/\/doi\.org\//, "")
    IN  IF ~StartsWith(d, DoiPrefix) THEN DoiPrefix \o d ELSE d

formatIssn(issn) ==
    IF ~StartsWith(issn, IssnPrefix) THEN IssnPrefix \o issn ELSE issn

-----------------------------------------------------------------------------
(* The raw identifiers the normalizer check draws from. *)

HttpsUrl      == Http \o <<"s">> \o HostPart
HttpUrl       == Http \o HostPart
UpperHttpsUrl == <<"H", "T", "T", "P", "S">> \o HostPart
UpperHttpUrl  == <<"H", "T", "T", "P">> \o HostPart
UpperHostUrl  == Http \o <<"s", ":", "/", "/", "D", "O", "I", ".", "O", "R", "G", "/">>
DoiBody       == <<"1", "0", ".", "1", "/", "x">>
IssnBody      == <<"0", "1", "3", "8">>

Chunks == {HttpsUrl, HttpUrl, UpperHttpsUrl, UpperHttpUrl, UpperHostUrl,
           DoiPrefix, IssnPrefix, DoiBody, IssnBody}

RECURSIVE Strs(_)
Strs(n) ==
    IF n = 0 THEN {<<>>}
    ELSE LET P == Strs(n - 1) IN P \cup {c \o p : c \in Chunks, p \in P}

RawIdentifiers == Strs(MaxChunks)

Last(h) == h[Len(h)]

ApplyFormatDoi ==
    /\ Len(doiHist) < MaxApply
    /\ doiHist' = Append(doiHist, formatDoi(IF doiHist = <<>> THEN raw ELSE Last(doiHist)))
    /\ UNCHANGED <<raw, issnHist, tokenVars, calls, fmtVars>>

ApplyFormatIssn ==
    /\ Len(issnHist) < MaxApply
    /\ issnHist' = Append(issnHist, formatIssn(IF issnHist = <<>> THEN raw ELSE Last(issnHist)))
    /\ UNCHANGED <<raw, doiHist, tokenVars, calls, fmtVars>>

-----------------------------------------------------------------------------
(* Token resolution: index.ts getAccessToken and const ACCESS_TOKEN. *)

\* Each process is started with at most MaxArgs command-line arguments.
MaxArgs == 2

TokenFlag == <<"-", "-", "t", "o", "k", "e", "n", "=">>

\* Array.prototype.find: the first element satisfying the test, if any.
FindTokenArg(args) ==
    LET hits == {k \in 1..Len(args) : StartsWith(args[k], TokenFlag)}
    IN  IF hits = {} THEN Undefined
        ELSE Some(args[CHOOSE k \in hits : \A j \in hits : k <= j])

\* String.prototype.split(sep) for a one-character separator.
RECURSIVE Split(_, _)
Split(s, sep) ==
    LET cuts == {k \in 1..Len(s) : s[k] = sep}
    IN  IF cuts = {} THEN <<s>>
        ELSE LET k == CHOOSE c \in cuts : \A j \in cuts : c <= j
             IN  <<SubSeq(s, 1, k - 1)>> \o Split(Drop(s, k), sep)

getAccessToken(args, e) ==
    LET tokenArg == FindTokenArg(args)
    IN  IF tokenArg # Undefined                   \* a matching argument is never ""
        THEN Some(Split(TheValue(tokenArg), "=")[2])   \* tokenArg.split('=')[1]
        ELSE e

\* The module body of index.ts runs once, before any tool is invoked.
LoadModule ==
    /\ ~started
    /\ started' = TRUE
    /\ ACCESS_TOKEN' = getAccessToken(argv, env)
    /\ UNCHANGED <<argv, env, calls, normVars, fmtVars>>

\* The command-line arguments and environment values the token check draws from.
Tok(v) == TokenFlag \o v

ArgStrings == {Tok(<<"t", "k">>), Tok(<<"a", "=", "b">>), Tok(<<"k", "=">>), Tok(<<>>),
               <<"-", "-", "t", "o", "k", "e", "n">>, <<"-", "v">>}

RECURSIVE ArgLists(_)
ArgLists(n) ==
    IF n = 0 THEN {<<>>}
    ELSE LET P == ArgLists(n - 1) IN P \cup {<<a>> \o p : a \in ArgStrings, p \in P}

EnvValues == {Undefined, Some(<<"e", "v">>), Some(<<>>)}

-----------------------------------------------------------------------------
(* Text formatters: lib.ts formatCitationAsText, formatCitationsAsText.    *)
(* A multi-line string is the sequence of its lines (the string is the     *)
(* lines joined by "\n"); field values are opaque strings without line     *)
(* breaks.                                                                 *)

\* The formatter check draws lists of at most MaxCitations records.
MaxCitations == 2

\* obj.f: the field's value, or undefined when the object has no such field.
Field(obj, f) == IF f \in DOMAIN obj THEN Some(obj[f]) ELSE Undefined

\* `${v}` in a template literal.
Show(o) == IF o = Undefined THEN "undefined" ELSE TheValue(o)

\* v || dflt for a string or undefined v: "" and undefined are falsy.
OrElse(o, dflt) == IF o = Undefined \/ o = Some("") THEN dflt ELSE TheValue(o)

formatCitationAsText(citation) ==
    << "OCI: " \o Show(Field(citation, "oci")),
       "Citing: " \o Show(Field(citation, "citing")),
       "Cited: " \o Show(Field(citation, "cited")),
       "Date: " \o OrElse(Field(citation, "creation"), "N/A"),
       "Timespan: " \o OrElse(Field(citation, "timespan"), "N/A"),
       "Journal self-citation: " \o OrElse(Field(citation, "journal_sc"), "no"),
       "Author self-citation: " \o OrElse(Field(citation, "author_sc"), "no") >>

JournalLine == "    (Journal self-citation)"
AuthorLine  == "    (Author self-citation)"

\* CitationBlock with the flags tested against "no" instead of "yes".
CitationBlockNotNo(c, i) ==
    << "[" \o ToString(i + 1) \o "] OCI: " \o Show(Field(c, "oci")),
       "    Citing: " \o Show(Field(c, "citing")),
       "    Cited: " \o Show(Field(c, "cited")),
       "    Date: " \o OrElse(Field(c, "creation"), "N/A") >>
    \o (IF Field(c, "journal_sc") # Some("no") THEN <<JournalLine>> ELSE <<>>)
    \o (IF Field(c, "author_sc") # Some("no") THEN <<AuthorLine>> ELSE <<>>)

\* The block of lines of the record at 0-based index i.
CitationBlock(c, i) ==
    << "[" \o ToString(i + 1) \o "] OCI: " \o Show(Field(c, "oci")),
       "    Citing: " \o Show(Field(c, "citing")),
       "    Cited: " \o Show(Field(c, "cited")),
       "    Date: " \o OrElse(Field(c, "creation"), "N/A") >>
    \o (IF Field(c, "journal_sc") = Some("yes") THEN <<JournalLine>> ELSE <<>>)
    \o (IF Field(c, "author_sc") = Some("yes") THEN <<AuthorLine>> ELSE <<>>)

\* blocks.join("\n\n"): an empty line between consecutive blocks.
RECURSIVE JoinBlocks(_)
JoinBlocks(blocks) ==
    IF Len(blocks) = 1 THEN blocks[1]
    ELSE blocks[1] \o <<"">> \o JoinBlocks(Tail(blocks))

formatCitationsAsText(cs) ==
    IF Len(cs) = 0 THEN <<"No citations found.">>
    ELSE JoinBlocks([k \in 1..Len(cs) |-> CitationBlock(cs[k], k - 1)])

\* The Citation records the formatter check draws from.
CitationRecords ==
    [oci : {"o1"}, citing : {"doi:a"}, cited : {"doi:b"},
     creation : {"", "2020-01"}, timespan : {"P1Y"},
     journal_sc : {"yes", "no", ""}, author_sc : {"yes", "no"}]

RECURSIVE CitationLists(_)
CitationLists(n) ==
    IF n = 0 THEN {<<>>}
    ELSE LET P == CitationLists(n - 1)
         IN  P \cup {<<c>> \o p : c \in CitationRecords, p \in P}

NotFormatted == <<"<not formatted>", "<not formatted>">>

FormatCitations ==
    /\ text = NotFormatted
    /\ text' = formatCitationsAsText(citations)
    /\ UNCHANGED <<citations, tokenVars, calls, normVars>>

-----------------------------------------------------------------------------
(* JavaScript values of the API client.                                    *)

\* The characters of s joined into one string.
RECURSIVE Implode(_)
Implode(s) == IF s = <<>> THEN "" ELSE s[1] \o Implode(Tail(s))

\* A completion: a returned value or a thrown error.
Return(v) == [kind |-> "return", value |-> v]
Throw(e)  == [kind |-> "throw", error |-> e]

\* Numbers: an integer, or NaN.
Num(n) == [num |-> n]
NaN    == [nan |-> TRUE]
ShowNum(v) == IF v = NaN THEN "NaN" ELSE ToString(v.num)

Null == [null |-> TRUE]

\* A parsed JSON body: an array of objects, or an object that is no array.
JsonArray(items) == [json |-> "array", items |-> items]
JsonObject(obj)  == [json |-> "object", fields |-> obj]
\* A body that is not JSON text.
InvalidJson      == [json |-> "invalid"]

\* The errors the code throws or lets through.
RequestError(status, statusText) ==          \* lib.ts line 51
    [name |-> "Error",
     message |-> "API request failed: " \o ToString(status) \o " " \o statusText]
FetchError == [name |-> "TypeError", message |-> "fetch failed"]
JsonError  == [name |-> "SyntaxError", message |-> "Unexpected token in JSON"]
PropertyError(f) ==
    [name |-> "TypeError",
     message |-> "Cannot read properties of undefined (reading '" \o f \o "')"]

-----------------------------------------------------------------------------
(* parseInt(string, 10).                                                   *)

Digits == <<"0", "1", "2", "3", "4", "5", "6", "7", "8", "9">>
IsDigit(c) == \E k \in 1..Len(Digits) : Digits[k] = c
DigitVal(c) == (CHOOSE k \in 1..Len(Digits) : Digits[k] = c) - 1

RECURSIVE TrimLeft(_)
TrimLeft(s) == IF s # <<>> /\ s[1] = " " THEN TrimLeft(Tail(s)) ELSE s

\* The value of the longest prefix of digits of s, given the value acc of the
\* digits read so far; none when no digit has been read.
RECURSIVE ReadDigits(_, _)
ReadDigits(s, acc) ==
    IF s # <<>> /\ IsDigit(s[1])
    THEN ReadDigits(Tail(s), Some(10 * (IF acc = Undefined THEN 0 ELSE TheValue(acc))
                                  + DigitVal(s[1])))
    ELSE acc

parseInt(o) ==
    IF o = Undefined THEN NaN         \* parseInt(undefined, 10)
    ELSE LET t    == TrimLeft(TheValue(o))
             neg  == t # <<>> /\ t[1] = "-"
             body == IF t # <<>> /\ t[1] \in {"+", "-"} THEN Tail(t) ELSE t
             v    == ReadDigits(body, Undefined)
         IN  IF v = Undefined THEN NaN
             ELSE Num(IF neg THEN 0 - TheValue(v) ELSE TheValue(v))

-----------------------------------------------------------------------------
(* The API client: lib.ts apiRequest and the six operations.               *)

BASE_URL == "https://api.opencitations.net/index/v2"

\* if (accessToken): undefined and "" are falsy.
Truthy(o) == o # Undefined /\ o # Some(<<>>)

\* The headers with the token sent under the Bearer scheme.
HeadersBearer(accessToken) ==
    IF Truthy(accessToken)
    THEN [Accept |-> "application/json",
          Authorization |-> <<"B", "e", "a", "r", "e", "r", " ">> \o TheValue(accessToken)]
    ELSE [Accept |-> "application/json"]

Headers(accessToken) ==
    IF Truthy(accessToken)
    THEN [Accept |-> "application/json", Authorization |-> TheValue(accessToken)]
    ELSE [Accept |-> "application/json"]

\* apiRequest up to the call of fetch: the GET request it issues.
apiRequestFetch(endpoint, accessToken) ==
    [method |-> "GET", url |-> BASE_URL \o endpoint, headers |-> Headers(accessToken)]

\* response.ok: the status is in the range 200-299.
Ok(response) == response.status >= 200 /\ response.status <= 299

\* apiRequest without the test of response.ok.
apiRequestResultUnchecked(settled) ==
    IF settled.type = "rejection" THEN Throw(FetchError)
    ELSE IF settled.body = InvalidJson THEN Throw(JsonError)
    ELSE Return(settled.body)

\* apiRequest from the settling of fetch on: what it returns or throws.
apiRequestResult(settled) ==
    IF settled.type = "rejection" THEN Throw(FetchError)        \* await fetch rejects
    ELSE IF ~Ok(settled)
         THEN Throw(RequestError(settled.status, settled.statusText))
    ELSE IF settled.body = InvalidJson THEN Throw(JsonError)     \* response.json() rejects
    ELSE Return(settled.body)

\* data.length and data[0] of a parsed body: undefined on an object that is
\* no array, and data[0] undefined on an empty array.
DataLength(data) == IF data.json = "array" THEN Some(Len(data.items)) ELSE Undefined
DataFirst(data) ==
    IF data.json = "array" /\ Len(data.items) > 0 THEN Some(data.items[1]) ELSE Undefined

\* The count read from the last element instead of the first.
firstCountFromLast(data) ==
    IF DataLength(data) = Some(0) THEN Return(Num(0))
    ELSE IF DataFirst(data) = Undefined THEN Throw(PropertyError("count"))
    ELSE Return(parseInt(Field(data.items[Len(data.items)], "count")))

\* The decoding shared by the three count operations (lib.ts lines 71-75,
\* 99-103, 139-143).
firstCount(data) ==
    IF DataLength(data) = Some(0) THEN Return(Num(0))
    ELSE IF DataFirst(data) = Undefined              \* data[0].count on undefined
         THEN Throw(PropertyError("count"))
    ELSE Return(parseInt(Field(TheValue(DataFirst(data)), "count")))

\* An operation whose request failed fails with the same error.
getCitationCount(settled) ==
    LET r == apiRequestResult(settled)
    IN  IF r.kind = "throw" THEN r ELSE firstCount(r.value)

getReferenceCount(settled) ==
    LET r == apiRequestResult(settled)
    IN  IF r.kind = "throw" THEN r ELSE firstCount(r.value)

getVenueCitationCount(settled) ==
    LET r == apiRequestResult(settled)
    IN  IF r.kind = "throw" THEN r ELSE firstCount(r.value)

\* The list operations return the parsed body as it is.
getCitations(settled) == apiRequestResult(settled)

getReferences(settled) == apiRequestResult(settled)

\* getCitation failing on an empty list instead of returning null.
firstOrNullThrowing(data) ==
    IF DataLength(data) # Undefined /\ TheValue(DataLength(data)) > 0
    THEN Return(data.items[1])
    ELSE Throw([name |-> "Error", message |-> "Citation not found"])

\* data.length > 0 ? data[0] : null
firstOrNull(data) ==
    IF DataLength(data) # Undefined /\ TheValue(DataLength(data)) > 0
    THEN Return(data.items[1])
    ELSE Return(Null)

getCitation(settled) ==
    LET r == apiRequestResult(settled)
    IN  IF r.kind = "throw" THEN r ELSE firstOrNull(r.value)

-----------------------------------------------------------------------------
(* The tool handlers of index.ts.  A handler runs from its invocation to   *)
(* the call of fetch in one step, and from the settling of fetch to its    *)
(* own completion in another; other invocations may run in between.        *)

\* The number of tool invocations that may be in flight together.
NumInv == 2

Slots == 1..NumInv

IdleCall ==
    [pc |-> "idle", tool |-> "", arg |-> <<>>, request |-> Undefined, fetches |-> 0,
     settled |-> Undefined, result |-> Undefined, reply |-> Undefined]

\* The invocation after its handler has called fetch and awaits it.
Awaiting(tool, arg, request) ==
    [pc |-> "awaiting", tool |-> tool, arg |-> arg, request |-> Some(request),
     fetches |-> 1, settled |-> Undefined, result |-> Undefined, reply |-> Undefined]

OciPrefix == <<"o", "c", "i", ":">>

\* args.oci.replace(/^oci:/, "")
StripOci(oci) == IF StartsWith(oci, OciPrefix) THEN Drop(oci, Len(OciPrefix)) ELSE oci

\* The arguments the tools are invoked with.
DoiArgs  == {HttpsUrl \o DoiBody}
IssnArgs == {IssnBody}
OciArgs  == {OciPrefix \o <<"1", "-", "2">>}

\* The invocation in slot i once its handler has built the request and
\* called fetch.
Invoked(i, tool, arg, endpoint) ==
    [calls EXCEPT ![i] = Awaiting(tool, arg, apiRequestFetch(endpoint, ACCESS_TOKEN))]

CitationCountTool(i) ==
    /\ started /\ calls[i].pc = "idle"
    /\ \E doi \in DoiArgs :
        calls' = Invoked(i, "citation_count", doi,
                         "/citation-count/" \o Implode(formatDoi(doi)))
    /\ UNCHANGED <<tokenVars, normVars, fmtVars>>

GetCitationsTool(i) ==
    /\ started /\ calls[i].pc = "idle"
    /\ \E doi \in DoiArgs :
        calls' = Invoked(i, "get_citations", doi,
                         "/citations/" \o Implode(formatDoi(doi)))
    /\ UNCHANGED <<tokenVars, normVars, fmtVars>>

ReferenceCountTool(i) ==
    /\ started /\ calls[i].pc = "idle"
    /\ \E doi \in DoiArgs :
        calls' = Invoked(i, "reference_count", doi,
                         "/reference-count/" \o Implode(formatDoi(doi)))
    /\ UNCHANGED <<tokenVars, normVars, fmtVars>>

GetReferencesTool(i) ==
    /\ started /\ calls[i].pc = "idle"
    /\ \E doi \in DoiArgs :
        calls' = Invoked(i, "get_references", doi,
                         "/references/" \o Implode(formatDoi(doi)))
    /\ UNCHANGED <<tokenVars, normVars, fmtVars>>

GetCitationTool(i) ==
    /\ started /\ calls[i].pc = "idle"
    /\ \E oci \in OciArgs :
        calls' = Invoked(i, "get_citation", oci,
                         "/citation/" \o Implode(StripOci(oci)))
    /\ UNCHANGED <<tokenVars, normVars, fmtVars>>

VenueCitationCountTool(i) ==
    /\ started /\ calls[i].pc = "idle"
    /\ \E issn \in IssnArgs :
        calls' = Invoked(i, "venue_citation_count", issn,
                         "/venue-citation-count/" \o Implode(formatIssn(issn)))
    /\ UNCHANGED <<tokenVars, normVars, fmtVars>>

\* The operation each handler awaits.
Operation(tool, settled) ==
    CASE tool = "citation_count"       -> getCitationCount(settled)
      [] tool = "get_citations"        -> getCitations(settled)
      [] tool = "reference_count"      -> getReferenceCount(settled)
      [] tool = "get_references"       -> getReferences(settled)
      [] tool = "get_citation"         -> getCitation(settled)
      [] tool = "venue_citation_count" -> getVenueCitationCount(settled)

\* The text of a list handler: citations.length > 0 ? `Found ...` : `No ...`.
ListText(data, arg, found, none) ==
    IF DataLength(data) # Undefined /\ TheValue(DataLength(data)) > 0
    THEN << "Found " \o ToString(Len(data.items)) \o found \o Implode(arg) \o ":", "" >>
         \o formatCitationsAsText(data.items)
    ELSE << none \o Implode(arg) >>

\* The text a handler returns for the value of its operation.
ToolText(tool, arg, value) ==
    CASE tool = "citation_count" ->
           << "Citation count for " \o Implode(arg) \o ": " \o ShowNum(value) >>
      [] tool = "reference_count" ->
           << "Reference count for " \o Implode(arg) \o ": " \o ShowNum(value) >>
      [] tool = "venue_citation_count" ->
           << "Total citations for venue " \o Implode(arg) \o ": " \o ShowNum(value) >>
      [] tool = "get_citations" ->
           ListText(value, arg, " citations for ", "No citations found for ")
      [] tool = "get_references" ->
           ListText(value, arg, " references in ", "No references found for ")
      [] tool = "get_citation" ->
           IF value = Null                         \* if (!citation)
           THEN << "No citation found for OCI: " \o Implode(arg) >>
           ELSE formatCitationAsText(value)

\* A handler whose operation fails fails with the same error.
ToolReply(tool, arg, r) ==
    IF r.kind = "throw" THEN r ELSE Return(ToolText(tool, arg, r.value))

\* The continuation issuing the request again when it has failed.
CompleteWithRetry(call, settled) ==
    IF settled.type = "rejection" \/ ~Ok(settled)
    THEN [call EXCEPT !.fetches = @ + 1]
    ELSE [call EXCEPT
            !.pc = "done", !.settled = Some(settled),
            !.result = Some(Operation(call.tool, settled)),
            !.reply = Some(ToolReply(call.tool, call.arg, Operation(call.tool, settled)))]

\* The handler from the settling of fetch to its completion.
Complete(call, settled) ==
    [call EXCEPT
       !.pc = "done", !.settled = Some(settled),
       !.result = Some(Operation(call.tool, settled)),
       !.reply = Some(ToolReply(call.tool, call.arg, Operation(call.tool, settled)))]

\* The responses of the remote API the model draws from.
Cit1 == [oci |-> "o1", citing |-> "doi:a", cited |-> "doi:b", creation |-> "2020-01",
         timespan |-> "P1Y", journal_sc |-> "no", author_sc |-> "no"]
Cit2 == [oci |-> "o2", citing |-> "doi:c", cited |-> "doi:b", creation |-> "",
         timespan |-> "", journal_sc |-> "yes", author_sc |-> "no"]

Count38    == [count |-> <<"3", "8">>]
Count7     == [count |-> <<"7">>]
Count12abc == [count |-> <<"1", "2", "a", "b", "c">>]
NoCount    == [total |-> <<"3", "8">>]

Bodies ==
    { JsonArray(<<>>), JsonArray(<<Count38>>), JsonArray(<<Count38, Count7>>),
      JsonArray(<<Count12abc>>), JsonArray(<<NoCount>>),
      JsonArray(<<Cit1, Cit2>>),
      JsonObject([error |-> "unavailable"]), InvalidJson }

Response(status, statusText, body) ==
    [type |-> "response", status |-> status, statusText |-> statusText, body |-> body]

Responses ==
    {Response(200, "OK", b) : b \in Bodies}
    \cup {Response(404, "Not Found", JsonArray(<<>>)),
          Response(500, "Internal Server Error", InvalidJson)}

Rejection == [type |-> "rejection"]

\* fetch resolves with a response and the handler runs to completion.
FetchResolves(i) ==
    /\ calls[i].pc = "awaiting"
    /\ \E response \in Responses :
           calls' = [calls EXCEPT ![i] = Complete(@, response)]
    /\ UNCHANGED <<tokenVars, normVars, fmtVars>>

\* fetch rejects (DNS, connection refused, timeout) and the handler fails.
FetchRejects(i) ==
    /\ calls[i].pc = "awaiting"
    /\ calls' = [calls EXCEPT ![i] = Complete(@, Rejection)]
    /\ UNCHANGED <<tokenVars, normVars, fmtVars>>

FetchSettles(i) == FetchResolves(i) \/ FetchRejects(i)

-----------------------------------------------------------------------------
(* Specifications.                                                         *)

NoCalls == [i \in Slots |-> IdleCall]
NoNorm  == raw = <<>> /\ doiHist = <<>> /\ issnHist = <<>>
NoFmt   == citations = <<>> /\ text = NotFormatted

NotStarted == started = FALSE /\ ACCESS_TOKEN = Undefined

\* The server: a process started with no token, a token on the command line,
\* or an empty token in the environment, and NumInv tool invocations.
ServerConfigs ==
    { [argv |-> <<>>, env |-> Undefined],
      [argv |-> <<Tok(<<"t", "k">>)>>, env |-> Some(<<"e", "v">>)],
      [argv |-> <<>>, env |-> Some(<<>>)] }

Init ==
    /\ \E c \in ServerConfigs : argv = c.argv /\ env = c.env
    /\ NotStarted
    /\ calls = NoCalls
    /\ NoNorm
    /\ NoFmt

Next ==
    \/ LoadModule
    \/ \E i \in Slots :
        \/ CitationCountTool(i)
        \/ GetCitationsTool(i)
        \/ ReferenceCountTool(i)
        \/ GetReferencesTool(i)
        \/ GetCitationTool(i)
        \/ VenueCitationCountTool(i)
        \/ FetchResolves(i)
        \/ FetchRejects(i)

Spec == Init /\ [][Next]_vars

\* Token resolution alone, over the command lines and environments.
InitToken ==
    /\ argv \in ArgLists(MaxArgs)
    /\ env \in EnvValues
    /\ NotStarted
    /\ calls = NoCalls
    /\ NoNorm
    /\ NoFmt

SpecToken == InitToken /\ [][LoadModule]_vars

\* The normalizers alone, over the raw identifiers.
InitNorm ==
    /\ raw \in RawIdentifiers
    /\ doiHist = <<>>
    /\ issnHist = <<>>
    /\ argv = <<>> /\ env = Undefined /\ NotStarted
    /\ calls = NoCalls
    /\ NoFmt

NextNorm == ApplyFormatDoi \/ ApplyFormatIssn

SpecNorm == InitNorm /\ [][NextNorm]_vars

\* The list formatter alone, over the lists of records.
InitFmt ==
    /\ citations \in CitationLists(MaxCitations)
    /\ text = NotFormatted
    /\ argv = <<>> /\ env = Undefined /\ NotStarted
    /\ calls = NoCalls
    /\ NoNorm

SpecFmt == InitFmt /\ [][FormatCitations]_vars

-----------------------------------------------------------------------------
(* Properties.                                                             *)

Done(i)      == calls[i].pc = "done"
Settled(i)   == TheValue(calls[i].settled)
Result(i)    == TheValue(calls[i].result)
Reply(i)     == TheValue(calls[i].reply)
Request(i)   == TheValue(calls[i].request)

\* The invocation in slot i has completed on a response (fetch did not reject).
Responded(i) == Done(i) /\ Settled(i).type = "response"
Is2xx(i)     == Settled(i).status \in 200..299

CountTools == {"citation_count", "reference_count", "venue_citation_count"}

\* C1: an operation whose response has a non-2xx status S fails with the
\* request error carrying S (and its status text); neither the operation nor
\* its handler completes with a value.
C1_NonOkFails ==
    \A i \in Slots :
        (Responded(i) /\ ~Is2xx(i)) =>
            /\ Result(i).kind = "throw"
            /\ Result(i).error.name = "Error"
            /\ Result(i).error.message =
                   "API request failed: " \o ToString(Settled(i).status)
                   \o " " \o Settled(i).statusText
            /\ Reply(i) = Result(i)

\* A count operation has failed on a 404 whose body is the empty list.
C1_Witness ==
    \E i \in Slots :
        /\ Responded(i) /\ Settled(i).status = 404
        /\ calls[i].tool = "citation_count"
        /\ Settled(i).body = JsonArray(<<>>)
        /\ Result(i).kind = "throw"

\* C2 as stated: a request carries an Authorization header if and only if a
\* token was supplied, and then its value is the token.
C2_AuthIffSupplied ==
    \A i \in Slots :
        calls[i].request # Undefined =>
            /\ ("Authorization" \in DOMAIN Request(i).headers) <=> (ACCESS_TOKEN # Undefined)
            /\ ("Authorization" \in DOMAIN Request(i).headers) =>
                   Request(i).headers.Authorization = TheValue(ACCESS_TOKEN)

\* C2 amended: a request carries an Authorization header if and only if a
\* non-empty token was supplied (an empty token counts as none), and then its
\* value is the token, unchanged.
C2_AuthIffNonEmpty ==
    \A i \in Slots :
        calls[i].request # Undefined =>
            /\ ("Authorization" \in DOMAIN Request(i).headers)
                   <=> (ACCESS_TOKEN # Undefined /\ ACCESS_TOKEN # Some(<<>>))
            /\ ("Authorization" \in DOMAIN Request(i).headers) =>
                   Request(i).headers.Authorization = TheValue(ACCESS_TOKEN)

\* A request has been issued with the token of the command line.
C2_Witness ==
    \E i \in Slots :
        /\ calls[i].request # Undefined
        /\ ACCESS_TOKEN = Some(<<"t", "k">>)
        /\ "Authorization" \in DOMAIN Request(i).headers

\* The longest prefix of s made of digits, and the number a string of digits
\* denotes in base 10.
LeadingDigits(s) ==
    LET n == CHOOSE k \in 0..Len(s) :
                 /\ \A m \in 1..k : IsDigit(s[m])
                 /\ (k < Len(s) => ~IsDigit(s[k + 1]))
    IN  SubSeq(s, 1, n)

RECURSIVE Pow10(_)
Pow10(n) == IF n = 0 THEN 1 ELSE 10 * Pow10(n - 1)

RECURSIVE DecimalValue(_)
DecimalValue(d) ==
    IF d = <<>> THEN 0
    ELSE DigitVal(d[1]) * Pow10(Len(d) - 1) + DecimalValue(Tail(d))

\* The body is a list of count elements, each with a count string that
\* starts with a digit.
CountList(body) ==
    /\ body.json = "array"
    /\ \A k \in 1..Len(body.items) :
           /\ "count" \in DOMAIN body.items[k]
           /\ LeadingDigits(body.items[k].count) # <<>>

\* C3: a count operation on a successful response returns 0 for the empty
\* list, and otherwise the base-10 value of the leading digits of the first
\* element's count string, whatever follows the digits and whatever elements
\* follow the first.
C3_CountFromFirst ==
    \A i \in Slots :
        (Responded(i) /\ Is2xx(i) /\ calls[i].tool \in CountTools
                      /\ CountList(Settled(i).body)) =>
            LET items == Settled(i).body.items
            IN  IF items = <<>>
                THEN Result(i) = Return(Num(0))
                ELSE Result(i) =
                         Return(Num(DecimalValue(LeadingDigits(items[1].count))))

\* Count operations have completed on a list of two elements and on a count
\* string with trailing letters.
C3_Witness ==
    \E i, j \in Slots :
        /\ Responded(i) /\ Is2xx(i) /\ calls[i].tool = "venue_citation_count"
        /\ Settled(i).body = JsonArray(<<Count38, Count7>>)
        /\ Result(i) = Return(Num(38))
        /\ Responded(j) /\ Is2xx(j) /\ calls[j].tool = "reference_count"
        /\ Settled(j).body = JsonArray(<<Count12abc>>)
        /\ Result(j) = Return(Num(12))

\* C4: getCitation on a successful response with a list body returns null for
\* the empty list, without failing, and otherwise the first record; the
\* handler answers null with the text "No citation found for OCI: <arg>" and a
\* record with a text, never with an error.
C4_FirstOrAbsent ==
    \A i \in Slots :
        (Responded(i) /\ Is2xx(i) /\ calls[i].tool = "get_citation"
                      /\ Settled(i).body.json = "array") =>
            LET items == Settled(i).body.items
            IN  IF items = <<>>
                THEN /\ Result(i) = Return(Null)
                     /\ Reply(i) =
                            Return(<<"No citation found for OCI: " \o Implode(calls[i].arg)>>)
                ELSE /\ Result(i) = Return(items[1])
                     /\ Reply(i).kind = "return"
                     /\ Reply(i).value[1] = "OCI: " \o Show(Field(items[1], "oci"))

\* getCitation has completed on the empty list, and on a list of two records.
C4_Witness ==
    \E i, j \in Slots :
        /\ Responded(i) /\ Is2xx(i) /\ calls[i].tool = "get_citation"
        /\ Settled(i).body = JsonArray(<<>>)
        /\ Responded(j) /\ Is2xx(j) /\ calls[j].tool = "get_citation"
        /\ Settled(j).body = JsonArray(<<Cit1, Cit2>>)


\* C5: formatDoi and formatIssn are idempotent: a second and any later
\* application returns its argument; the result of formatDoi starts with
\* "doi:" and that of formatIssn with "issn:", and an input that carries the
\* prefix is returned unchanged.
C5_Idempotent ==
    /\ \A k \in 1..Len(doiHist) :
           /\ StartsWith(doiHist[k], DoiPrefix)
           /\ k > 1 => doiHist[k] = doiHist[k - 1]
    /\ (doiHist # <<>> /\ StartsWith(raw, DoiPrefix)) => doiHist[1] = raw
    /\ \A k \in 1..Len(issnHist) :
           /\ StartsWith(issnHist[k], IssnPrefix)
           /\ k > 1 => issnHist[k] = issnHist[k - 1]
    /\ (issnHist # <<>> /\ StartsWith(raw, IssnPrefix)) => issnHist[1] = raw

\* Both normalizers have been applied twice to a DOI URL.
C5_Witness ==
    /\ raw = HttpsUrl \o DoiBody
    /\ Len(doiHist) >= 2
    /\ Len(issnHist) >= 2

\* A DOI body: an identifier that does not itself carry the "doi:" prefix.
IsDoiBody(d) == ~StartsWith(d, DoiPrefix)

\* raw is the URL prefix p followed by a DOI body.
UrlOf(p) == StartsWith(raw, p) /\ IsDoiBody(Drop(raw, Len(p)))

\* C6 as stated: the scheme is matched in any letter case and the host
\* exactly: "https://doi.org/" + d, "http://doi.org/" + d and the same with the
\* scheme in upper case normalize to "doi:" + d; an upper-case host is not
\* stripped.
C6_SchemeAnyCase ==
    doiHist # <<>> =>
        /\ \A p \in {HttpsUrl, HttpUrl, UpperHttpsUrl, UpperHttpUrl} :
               UrlOf(p) => doiHist[1] = DoiPrefix \o Drop(raw, Len(p))
        /\ UrlOf(UpperHostUrl) => doiHist[1] = DoiPrefix \o raw

\* C6 amended: scheme and host are both matched exactly, in lower case:
\* "https://doi.org/" + d and "http://doi.org/" + d normalize to "doi:" + d; an
\* input whose scheme or host is in upper case is not stripped and normalizes
\* to "doi:" followed by the whole input.
C6_SchemeExactCase ==
    doiHist # <<>> =>
        /\ \A p \in {HttpsUrl, HttpUrl} :
               UrlOf(p) => doiHist[1] = DoiPrefix \o Drop(raw, Len(p))
        /\ \A p \in {UpperHttpsUrl, UpperHttpUrl, UpperHostUrl} :
               UrlOf(p) => doiHist[1] = DoiPrefix \o raw

\* formatDoi has been applied to a DOI URL whose scheme is in upper case.
C6_Witness ==
    /\ raw = UpperHttpsUrl \o DoiBody
    /\ doiHist # <<>>
    /\ doiHist[1] = DoiPrefix \o UpperHttpsUrl \o DoiBody

\* The shape each endpoint's body is expected to have: a list of objects with
\* a count string, or a list of Citation records.
CitationFields ==
    {"oci", "citing", "cited", "creation", "timespan", "journal_sc", "author_sc"}

ShapeOk(tool, body) ==
    /\ body.json = "array"
    /\ \A k \in 1..Len(body.items) :
           IF tool \in CountTools
           THEN "count" \in DOMAIN body.items[k]
           ELSE DOMAIN body.items[k] = CitationFields

\* C7: an operation whose 2xx response has a body that is not JSON or not of
\* its endpoint's shape fails, with an error that is neither the request
\* error nor the transport error; it returns no value.
C7_MalformedBodyFails ==
    \A i \in Slots :
        (Responded(i) /\ Is2xx(i) /\ ~ShapeOk(calls[i].tool, Settled(i).body)) =>
            /\ Result(i).kind = "throw"
            /\ Result(i).error.name \notin {"Error", FetchError.name}

\* The blocks of a text: its lines split at the empty lines.
RECURSIVE BlocksOf(_)
BlocksOf(lines) ==
    LET blanks == {k \in 1..Len(lines) : lines[k] = ""}
    IN  IF blanks = {} THEN <<lines>>
        ELSE LET k == CHOOSE b \in blanks : \A j \in blanks : b <= j
             IN  <<SubSeq(lines, 1, k - 1)>> \o BlocksOf(Drop(lines, k))

Occurrences(lines, l) == Cardinality({k \in 1..Len(lines) : lines[k] = l})

\* C8: formatCitationsAsText returns exactly "No citations found." for the
\* empty list; for n records it returns n non-empty blocks in input order,
\* one empty line between consecutive blocks, block i headed by "[i] OCI: "
\* and the record's oci, holding the journal annotation exactly when the
\* record's journal_sc is "yes" and the author annotation exactly when its
\* author_sc is "yes"; the text holds as many annotations of each kind as
\* there are records with that flag "yes".
C8_ListFormat ==
    text # NotFormatted =>
        IF citations = <<>>
        THEN text = <<"No citations found.">>
        ELSE LET blocks == BlocksOf(text)
             IN  /\ Len(blocks) = Len(citations)
                 /\ \A i \in 1..Len(blocks) :
                        /\ blocks[i] # <<>>
                        /\ blocks[i][1] =
                               "[" \o ToString(i) \o "] OCI: " \o citations[i].oci
                        /\ (Occurrences(blocks[i], JournalLine) = 1)
                               <=> (citations[i].journal_sc = "yes")
                        /\ (Occurrences(blocks[i], AuthorLine) = 1)
                               <=> (citations[i].author_sc = "yes")
                 /\ Occurrences(text, JournalLine) =
                        Cardinality({i \in 1..Len(citations) :
                                         citations[i].journal_sc = "yes"})
                 /\ Occurrences(text, AuthorLine) =
                        Cardinality({i \in 1..Len(citations) :
                                         citations[i].author_sc = "yes"})

\* Two records have been formatted, only the second a journal self-citation
\* and the first with an empty flag.
C8_Witness ==
    /\ text # NotFormatted
    /\ Len(citations) = 2
    /\ citations[1].journal_sc = ""
    /\ citations[2].journal_sc = "yes"
    /\ Occurrences(text, JournalLine) = 1

\* C9: every invocation issues exactly one GET request, when its handler
\* starts, and none after (no retry, also when the request fails); an
\* invocation awaiting its response can complete whatever the others do, and
\* a completed one has a result or a failure, which is a function of its own
\* tool, argument and response; a step of one invocation changes no other.
C9_OneRequestNoRetry ==
    /\ [](\A i \in Slots :
            /\ calls[i].pc = "idle" => calls[i].fetches = 0
            /\ calls[i].pc # "idle" =>
                   /\ calls[i].fetches = 1
                   /\ Request(i).method = "GET"
            /\ calls[i].pc = "awaiting" => ENABLED FetchSettles(i)
            /\ Done(i) =>
                   /\ Reply(i).kind \in {"return", "throw"}
                   /\ Reply(i) = ToolReply(calls[i].tool, calls[i].arg,
                                           Operation(calls[i].tool, Settled(i))))
    /\ [][\A i \in Slots :
            /\ calls[i].pc # "idle" => calls'[i].fetches = calls[i].fetches
            /\ Done(i) => calls'[i] = calls[i]
            /\ calls'[i] # calls[i] =>
                   \A j \in Slots \ {i} : calls'[j] = calls[j]]_vars

\* One invocation has failed on a 404 after one request while another
\* awaits its response.
C9_Witness ==
    \E i, j \in Slots :
        /\ Responded(i) /\ Settled(i).status = 404
        /\ calls[i].fetches = 1
        /\ calls[j].pc = "awaiting"

\* The value of the first --token= argument: everything after the flag.
FlagValue(args) == Drop(TheValue(FindTokenArg(args)), Len(TokenFlag))

\* C10: once the module has loaded, the token is the value V of the first
\* --token=V argument, whatever V contains, and the environment variable's
\* value when there is no such argument.
C10_TokenIsFlagValue ==
    started =>
        IF FindTokenArg(argv) # Undefined
        THEN ACCESS_TOKEN = Some(FlagValue(argv))
        ELSE ACCESS_TOKEN = env

=============================================================================
